---- MODULE Spec2Model ----
(***************************************************************************)
(* Model of final.py: the Los Angeles crime dashboard.  One script run is  *)
(* load_data (behind st.cache_data, ttl 3600) followed by the cleaning     *)
(* steps on df_clean and by one chart section per aggregate.  A table is a *)
(* sequence of rows; a row is a record of cells; a cell is <<>> (missing,  *)
(* NaN / NaT / <NA>) or <<v>>.  Every row of a loaded table carries idx,   *)
(* its pandas index label, which filters keep and comparisons ignore.      *)
(***************************************************************************)
EXTENDS Integers, Sequences, FiniteSets, TLC

VARIABLES
    file,                \* rows of Crime_Data_from_2020_to_Present.parquet.csv
    now,                 \* clock read by the cache, in seconds
    cache,               \* st.cache_data entry of load_data: <<>> or <<[value, stored]>>
    reads,               \* number of pd.read_csv executions so far
    runs,                \* number of script runs started after the first one
    ticks,               \* number of clock advances so far
    build,               \* sort used by Series.sort_values(kind='quicksort')
    pc,                  \* position of the script run
    df,                  \* line 55
    df_clean,            \* lines 85-113
    initial_count,       \* line 106
    duplicates_removed,  \* line 108
    initial_count_2,     \* line 112
    missing_removed,     \* line 114
    sizes,               \* len(df_clean) after each filtering statement, in order
    area_crimes,         \* line 138
    top_crimes,          \* line 150
    status_counts,       \* line 162
    weapon_counts,       \* line 176
    map_sample,          \* line 187
    top_5_crimes,        \* line 219
    top_crimes_by_area,  \* line 223
    age_data,            \* lines 245-246
    victim_sex           \* line 258

env == <<file, now, cache, reads, runs, ticks, build>>
cleaning == <<df_clean, initial_count, duplicates_removed, initial_count_2,
              missing_removed, sizes>>
charts == <<area_crimes, top_crimes, status_counts, weapon_counts, map_sample,
            top_5_crimes, top_crimes_by_area, age_data, victim_sex>>
vars == <<env, pc, df, cleaning, charts>>

----------------------------------------------------------------------------
(* Cells *)

NA == <<>>
Some(v) == <<v>>
isna(c) == c = NA
Val(c) == c[1]

Min(a, b) == IF a <= b THEN a ELSE b
Range(s) == {s[i] : i \in DOMAIN s}

----------------------------------------------------------------------------
(* Program constants *)

TTL == 3600
LAT_MIN == 33
LAT_MAX == 35
LON_MIN == -119
LON_MAX == -117
TOP_N == 10
TOP_CROSS == 5
MAP_SAMPLE_N == 5000
AGE_LOW == 0
AGE_HIGH == 100
HOUR_DIV == 100
critical_columns == {"area", "crime", "sex", "status"}

----------------------------------------------------------------------------
(* Bounds of the model *)

MaxRows == 2       \* rows of a free-form file
NLabels == 12      \* rows of a file of distinct labels
MaxExtra == 2      \* rows appended to a file of distinct labels
MaxRuns == 2       \* script reruns in a session
MaxTicks == 3      \* clock advances in a session

----------------------------------------------------------------------------
(* Conversions *)

DigitVal(ch) ==
    CASE ch = "0" -> 0 [] ch = "1" -> 1 [] ch = "2" -> 2 [] ch = "3" -> 3
      [] ch = "4" -> 4 [] ch = "5" -> 5 [] ch = "6" -> 6 [] ch = "7" -> 7
      [] ch = "8" -> 8 [] ch = "9" -> 9 [] OTHER -> -1

RECURSIVE DigitsValue(_)
DigitsValue(s) ==
    IF s = <<>> THEN 0
    ELSE 10 * DigitsValue(SubSeq(s, 1, Len(s) - 1)) + DigitVal(s[Len(s)])

\* pd.to_numeric(errors='coerce') on one cell: the text of a cell is a sequence
\* of characters; text that is not a number becomes NaN.  The time codes of the
\* files below are strings of digits or words, so signs and fractions are left out.
to_numeric(c) ==
    IF isna(c) THEN NA
    ELSE IF Val(c) # <<>> /\ \A i \in DOMAIN Val(c) : DigitVal(Val(c)[i]) >= 0
         THEN Some(DigitsValue(Val(c)))
         ELSE NA

\* pd.to_datetime(errors='coerce') on one cell: month/day/year text with or
\* without zero padding is the same timestamp; other text becomes NaT.
to_datetime(c) ==
    IF isna(c) THEN NA
    ELSE CASE Val(c) = "01/05/2020" -> Some([y |-> 2020, m |-> 1, d |-> 5])
           [] Val(c) = "1/5/2020"   -> Some([y |-> 2020, m |-> 1, d |-> 5])
           [] Val(c) = "02/10/2021" -> Some([y |-> 2021, m |-> 2, d |-> 10])
           [] OTHER -> NA

MonthKey == <<0, 3, 2, 5, 0, 3, 5, 1, 4, 6, 2, 4>>
DayNames == <<"Sunday", "Monday", "Tuesday", "Wednesday", "Thursday", "Friday",
              "Saturday">>

\* Series.dt.day_name() of a timestamp
day_name(t) ==
    LET yy == IF t.m < 3 THEN t.y - 1 ELSE t.y
        w  == (yy + (yy \div 4) - (yy \div 100) + (yy \div 400) + MonthKey[t.m] + t.d) % 7
    IN  DayNames[w + 1]

\* the remainder taken for the quotient
hour_of_mod(c) == IF isna(c) THEN NA ELSE Some(Val(c) % HOUR_DIV)

\* (TIME OCC // 100).astype('Int64') on one cell
hour_of(c) == IF isna(c) THEN NA ELSE Some(Val(c) \div HOUR_DIV)

\* Series.between(lo, hi): inclusive on both sides, False for NaN
between(c, lo, hi) == ~isna(c) /\ lo <= Val(c) /\ Val(c) <= hi

----------------------------------------------------------------------------
(* Tables *)

Index(t) == {t[i].idx : i \in DOMAIN t}

\* a row without its index label: what drop_duplicates and equality of records compare
Cells(r) == [f \in DOMAIN r \ {"idx"} |-> r[f]]

\* pd.read_csv: the rows of the file under a RangeIndex
read_csv(rows) ==
    [i \in DOMAIN rows |->
        [idx |-> i - 1, date |-> rows[i].date, time |-> rows[i].time,
         area |-> rows[i].area, crime |-> rows[i].crime, age |-> rows[i].age,
         sex |-> rows[i].sex, status |-> rows[i].status, lat |-> rows[i].lat,
         lon |-> rows[i].lon, weapon |-> rows[i].weapon]]

RECURSIVE SelectIdx(_, _, _)
\* the rows of t at the positions K among 1..n, in order
SelectIdx(t, K, n) ==
    IF n = 0 THEN <<>>
    ELSE IF n \in K THEN Append(SelectIdx(t, K, n - 1), t[n])
         ELSE SelectIdx(t, K, n - 1)

head(s, n) == SubSeq(s, 1, Min(n, Len(s)))

----------------------------------------------------------------------------
(* The cleaning statements, each as a function of the table *)

\* line 88
parse_dates(t) == [i \in DOMAIN t |-> [t[i] EXCEPT !.date = to_datetime(t[i].date)]]

\* line 89
dropna_date(t) == SelectSeq(t, LAMBDA r : ~isna(r.date))

\* lines 92-94
temporal_features(t) ==
    [i \in DOMAIN t |->
        [idx |-> t[i].idx, date |-> t[i].date, time |-> t[i].time,
         area |-> t[i].area, crime |-> t[i].crime, age |-> t[i].age,
         sex |-> t[i].sex, status |-> t[i].status, lat |-> t[i].lat,
         lon |-> t[i].lon, weapon |-> t[i].weapon,
         year |-> Val(t[i].date).y, month |-> Val(t[i].date).m,
         day_of_week |-> day_name(Val(t[i].date))]]

\* lines 97-98
handle_time(t) ==
    [i \in DOMAIN t |->
        LET num == to_numeric(t[i].time) IN
        [idx |-> t[i].idx, date |-> t[i].date, time |-> num,
         area |-> t[i].area, crime |-> t[i].crime, age |-> t[i].age,
         sex |-> t[i].sex, status |-> t[i].status, lat |-> t[i].lat,
         lon |-> t[i].lon, weapon |-> t[i].weapon,
         year |-> t[i].year, month |-> t[i].month,
         day_of_week |-> t[i].day_of_week, hour |-> hour_of(num)]]

\* line 101
dropna_geo(t) == SelectSeq(t, LAMBDA r : ~isna(r.lat) /\ ~isna(r.lon))

\* line 102; NaN != 0 is True
nonzero(c) == isna(c) \/ Val(c) # 0
drop_zero(t) == SelectSeq(t, LAMBDA r : nonzero(r.lat) /\ nonzero(r.lon))

\* the longitude test left out
bounding_box_lat_only(t) == SelectSeq(t, LAMBDA r : between(r.lat, LAT_MIN, LAT_MAX))

\* line 103
in_box(r) == between(r.lat, LAT_MIN, LAT_MAX) /\ between(r.lon, LON_MIN, LON_MAX)
bounding_box(t) == SelectSeq(t, in_box)

\* the index label compared with the cells: no two rows are ever equal
drop_duplicates_with_index(t) ==
    SelectIdx(t, {i \in DOMAIN t : \A j \in 1..(i - 1) : t[j] # t[i]}, Len(t))

\* keep=False: every row that has a duplicate is dropped
drop_duplicates_keep_none(t) ==
    SelectIdx(t, {i \in DOMAIN t : \A j \in DOMAIN t \ {i} : Cells(t[j]) # Cells(t[i])},
              Len(t))

\* line 107: keep='first', all columns compared, missing cells equal to each other
drop_duplicates(t) ==
    SelectIdx(t, {i \in DOMAIN t : \A j \in 1..(i - 1) : Cells(t[j]) # Cells(t[i])},
              Len(t))

\* line 113
has_critical(r) == \A col \in critical_columns : ~isna(r[col])
dropna_critical(t) == SelectSeq(t, has_critical)

\* the whole of lines 85-113 on a loaded table
cleaned(t) ==
    dropna_critical(drop_duplicates(bounding_box(drop_zero(dropna_geo(
        handle_time(temporal_features(dropna_date(parse_dates(t)))))))))

----------------------------------------------------------------------------
(* The aggregates *)

\* the positions where a cell of the column is met for the first time
FirstSeen(t, col) ==
    {i \in DOMAIN t : \A j \in 1..(i - 1) : t[j][col] # t[i][col]}

CountOf(t, col, c) == Cardinality({i \in DOMAIN t : t[i][col] = c})

\* ascending=True
sort_values_ascending(s, kind) ==
    LET n == Len(s)
        Before(i, j) ==
            \/ s[i].count < s[j].count
            \/ s[i].count = s[j].count /\ (IF kind = "stable" THEN i < j ELSE i > j)
        rank == [j \in 1..n |-> Cardinality({i \in 1..n : Before(i, j)}) + 1]
    IN  [p \in 1..n |-> s[CHOOSE j \in 1..n : rank[j] = p]]

\* Series.sort_values(ascending=False) with the default kind='quicksort', which
\* pandas documents as not stable: rows of equal count come out in an order that
\* depends on the numpy build.  "stable" is the order of arrival (the small-array
\* insertion sort), "unstable" the reverse order among equal counts.
SortKinds == {"stable", "unstable"}
sort_values(s, kind) ==
    LET n == Len(s)
        Before(i, j) ==
            \/ s[i].count > s[j].count
            \/ s[i].count = s[j].count /\ (IF kind = "stable" THEN i < j ELSE i > j)
        rank == [j \in 1..n |-> Cardinality({i \in 1..n : Before(i, j)}) + 1]
    IN  [p \in 1..n |-> s[CHOOSE j \in 1..n : rank[j] = p]]

\* Series.value_counts(): dropna=True, sort=True; the labels are counted in order
\* of first appearance, NaN is left out, and the counts are sorted
value_counts(t, col, kind) ==
    LET seen == SelectIdx(t, {i \in FirstSeen(t, col) : ~isna(t[i][col])}, Len(t))
    IN  sort_values([k \in DOMAIN seen |->
                        [label |-> seen[k][col],
                         count |-> CountOf(t, col, seen[k][col])]], kind)

Labels(s) == [i \in DOMAIN s |-> s[i].label]

\* line 222: pd.crosstab(AREA NAME, Crm Cd Desc), one row per area, one column per crime
crosstab(t) ==
    LET both == SelectSeq(t, LAMBDA r : ~isna(r.area) /\ ~isna(r.crime))
        areas == {both[i].area : i \in DOMAIN both}
        crimes == {both[i].crime : i \in DOMAIN both}
    IN  [rows |-> areas,
         cols |-> crimes,
         cell |-> [a \in areas |-> [c \in crimes |->
                    Cardinality({i \in DOMAIN both :
                        both[i].area = a /\ both[i].crime = c})]]]

\* line 223: crime_by_area[top_5_crimes]
select_columns(ct, labels) ==
    [cols |-> labels,
     rows |-> {[area |-> a, cells |-> [k \in DOMAIN labels |-> ct.cell[a][labels[k]]]] :
                  a \in ct.rows}]

\* the upper bound included
age_filter_inclusive(t) ==
    LET present == SelectSeq(t, LAMBDA r : ~isna(r.age))
        kept == SelectSeq(present, LAMBDA r : Val(r.age) > AGE_LOW /\ Val(r.age) <= AGE_HIGH)
    IN  [i \in DOMAIN kept |-> [idx |-> kept[i].idx, age |-> Val(kept[i].age)]]

\* lines 245-246
age_filter(t) ==
    LET present == SelectSeq(t, LAMBDA r : ~isna(r.age))
        kept == SelectSeq(present, LAMBDA r : Val(r.age) > AGE_LOW /\ Val(r.age) < AGE_HIGH)
    IN  [i \in DOMAIN kept |-> [idx |-> kept[i].idx, age |-> Val(kept[i].age)]]

\* Series.plot(kind='bar' | 'barh') of pandas: an empty Series has no first bar
\* position and the call raises IndexError
bar_plot_raises(s) == Len(s) = 0

\* DataFrame.plot(kind='bar') of pandas: a frame without columns raises
\* TypeError("no numeric data to plot")
frame_plot_raises(f) == Len(f.cols) = 0

\* DataFrame.sample(n, random_state=42) without replacement: the index labels of
\* the rows drawn (the order of the draw is not modelled)
Samples(t, n) ==
    IF n = Len(t) THEN {Index(t)}
    ELSE {S \in SUBSET Index(t) : Cardinality(S) = n}

top_areas(t, kind) == head(value_counts(t, "area", kind), TOP_N)
top_crime_types(t, kind) == head(value_counts(t, "crime", kind), TOP_N)
top_weapons(t, kind) == head(value_counts(t, "weapon", kind), TOP_N)
\* head(10) for head(5)
top_cross_labels_ten(t, kind) == Labels(head(value_counts(t, "crime", kind), TOP_N))
top_cross_labels(t, kind) == Labels(head(value_counts(t, "crime", kind), TOP_CROSS))

----------------------------------------------------------------------------
(* The files the model reads *)

Text(a, b, c, d) == Some(<<a, b, c, d>>)

Base ==
    [date |-> Some("01/05/2020"), time |-> Text("1", "2", "3", "0"),
     area |-> Some("A1"), crime |-> Some("X1"), age |-> Some(30), sex |-> Some("M"),
     status |-> Some("Invest Cont"), lat |-> Some(34), lon |-> Some(-118),
     weapon |-> Some("W1")]

\* rows that differ from Base in one cell
FreeRows ==
    {Base}
    \cup {[Base EXCEPT !.date = v] : v \in {Some("1/5/2020"), Some("not a date")}}
    \cup {[Base EXCEPT !.time = v] :
            v \in {Text("n", "o", "o", "n"), Text("2", "5", "0", "0"),
                   Text("1", "2", "4", "5")}}
    \cup {[Base EXCEPT !.area = v] : v \in {NA, Some("A2")}}
    \cup {[Base EXCEPT !.crime = v] : v \in {NA}}
    \cup {[Base EXCEPT !.age = v] : v \in {NA, Some(0), Some(100), Some(150)}}
    \cup {[Base EXCEPT !.sex = v] : v \in {NA}}
    \cup {[Base EXCEPT !.status = v] : v \in {NA}}
    \cup {[Base EXCEPT !.lat = v] : v \in {NA, Some(0), Some(32), Some(33), Some(36)}}
    \cup {[Base EXCEPT !.lon = v] : v \in {Some(0), Some(-117), Some(-116)}}
    \cup {[Base EXCEPT !.weapon = v] : v \in {NA}}

Tables(rows, n) == UNION {[1..k -> rows] : k \in 0..n}

\* files of at most MaxRows rows, each any of FreeRows
FreeFiles == Tables(FreeRows, MaxRows)

\* row k of a file of distinct labels: its own area, weapon and time, one of 7 crimes
LabelRow(k) ==
    [Base EXCEPT !.time = Text(ToString(k \div 10), ToString(k % 10), "0", "0"),
                 !.area = Some("A" \o ToString(k)),
                 !.crime = Some("X" \o ToString(((k - 1) % 7) + 1)),
                 !.weapon = Some("W" \o ToString(k))]

ExtraRows ==
    {LabelRow(1),
     [LabelRow(1) EXCEPT !.time = Text("2", "3", "1", "5")],
     [LabelRow(2) EXCEPT !.time = Text("2", "3", "1", "5"), !.crime = Some("X7"),
                         !.weapon = NA],
     [LabelRow(NLabels) EXCEPT !.time = Text("2", "3", "1", "5"), !.crime = Some("X7")],
     [LabelRow(NLabels) EXCEPT !.time = Text("2", "3", "4", "5"), !.crime = Some("X6"),
                               !.weapon = NA],
     [LabelRow(NLabels - 1) EXCEPT !.time = Text("2", "3", "1", "5"),
                                   !.crime = Some("X6")]}

\* files of NLabels - 3 to NLabels rows of distinct labels followed by at most
\* MaxExtra of ExtraRows
LabelFiles ==
    {[k \in 1..n |-> LabelRow(k)] \o x :
        n \in (NLabels - 3)..NLabels, x \in Tables(ExtraRows, MaxExtra)}

\* the contents the file takes during a session
SessionFiles == {<<>>, <<Base>>, <<Base, LabelRow(2)>>}

----------------------------------------------------------------------------
(* The script *)

NoFrame == [cols |-> <<>>, rows |-> {}]

Fresh ==
    /\ df = <<>>
    /\ df_clean = <<>>
    /\ initial_count = 0
    /\ duplicates_removed = 0
    /\ initial_count_2 = 0
    /\ missing_removed = 0
    /\ sizes = <<>>
    /\ area_crimes = <<>>
    /\ top_crimes = <<>>
    /\ status_counts = <<>>
    /\ weapon_counts = <<>>
    /\ map_sample = {}
    /\ top_5_crimes = <<>>
    /\ top_crimes_by_area = NoFrame
    /\ age_data = <<>>
    /\ victim_sex = <<>>

Boot ==
    /\ now = 0
    /\ cache = NA
    /\ reads = 0
    /\ runs = 0
    /\ ticks = 0
    /\ build \in SortKinds
    /\ pc = "load"
    /\ Fresh

Init == file \in FreeFiles /\ Boot

InitLabels == file \in LabelFiles /\ Boot

InitSession == file \in SessionFiles /\ Boot

\* an entry that never expires
cache_hit_no_expiry(c, t) == ~isna(c)

\* st.cache_data(ttl=3600): an entry stored at time s is served while now < s + ttl
cache_hit(c, t) == ~isna(c) /\ t < Val(c).stored + TTL

\* lines 18-25 and 55
LoadData ==
    /\ pc = "load"
    /\ IF cache_hit(cache, now)
       THEN /\ df' = Val(cache).value
            /\ UNCHANGED <<cache, reads>>
       ELSE /\ df' = read_csv(file)
            /\ cache' = Some([value |-> read_csv(file), stored |-> now])
            /\ reads' = reads + 1
    /\ pc' = "dates"
    /\ UNCHANGED <<file, now, runs, ticks, build, cleaning, charts>>

Logged(stage, t) == Append(sizes, [stage |-> stage, size |-> Len(t)])

CleanStep(from, to, t) ==
    /\ pc = from
    /\ df_clean' = t
    /\ pc' = to
    /\ UNCHANGED <<env, df, charts>>

\* lines 85-89
ParseDates ==
    /\ CleanStep("dates", "temporal", dropna_date(parse_dates(df)))
    /\ sizes' = Logged("date", df_clean')
    /\ UNCHANGED <<initial_count, duplicates_removed, initial_count_2, missing_removed>>

\* lines 92-94
TemporalFeatures ==
    /\ CleanStep("temporal", "time", temporal_features(df_clean))
    /\ UNCHANGED <<initial_count, duplicates_removed, initial_count_2, missing_removed,
                   sizes>>

\* lines 97-98
HandleTime ==
    /\ CleanStep("time", "geo_na", handle_time(df_clean))
    /\ UNCHANGED <<initial_count, duplicates_removed, initial_count_2, missing_removed,
                   sizes>>

\* line 101
DropGeoMissing ==
    /\ CleanStep("geo_na", "geo_zero", dropna_geo(df_clean))
    /\ sizes' = Logged("geo_na", df_clean')
    /\ UNCHANGED <<initial_count, duplicates_removed, initial_count_2, missing_removed>>

\* line 102
DropGeoZero ==
    /\ CleanStep("geo_zero", "geo_box", drop_zero(df_clean))
    /\ sizes' = Logged("geo_zero", df_clean')
    /\ UNCHANGED <<initial_count, duplicates_removed, initial_count_2, missing_removed>>

\* line 103
BoundingBox ==
    /\ CleanStep("geo_box", "dedup", bounding_box(df_clean))
    /\ sizes' = Logged("geo_box", df_clean')
    /\ UNCHANGED <<initial_count, duplicates_removed, initial_count_2, missing_removed>>

\* initial_count taken after the duplicates are dropped
RemoveDuplicatesCountAfter ==
    /\ CleanStep("dedup", "critical", drop_duplicates(df_clean))
    /\ initial_count' = Len(df_clean')
    /\ duplicates_removed' = initial_count' - Len(df_clean')
    /\ sizes' = Logged("dedup", df_clean')
    /\ UNCHANGED <<initial_count_2, missing_removed>>

\* lines 106-108
RemoveDuplicates ==
    /\ CleanStep("dedup", "critical", drop_duplicates(df_clean))
    /\ initial_count' = Len(df_clean)
    /\ duplicates_removed' = initial_count' - Len(df_clean')
    /\ sizes' = Logged("dedup", df_clean')
    /\ UNCHANGED <<initial_count_2, missing_removed>>

\* lines 111-114
DropCriticalMissing ==
    /\ CleanStep("critical", "q1", dropna_critical(df_clean))
    /\ initial_count_2' = Len(df_clean)
    /\ missing_removed' = initial_count_2' - Len(df_clean')
    /\ sizes' = Logged("critical", df_clean')
    /\ UNCHANGED <<initial_count, duplicates_removed>>

ChartStep(to, raises) ==
    /\ pc' = IF raises THEN "error" ELSE to
    /\ UNCHANGED <<env, df, cleaning>>

\* lines 138-145
AreaChart ==
    /\ pc = "q1"
    /\ area_crimes' = top_areas(df_clean, build)
    /\ ChartStep("q2", bar_plot_raises(area_crimes'))
    /\ UNCHANGED <<top_crimes, status_counts, weapon_counts, map_sample, top_5_crimes,
                   top_crimes_by_area, age_data, victim_sex>>

\* lines 150-157
CrimeChart ==
    /\ pc = "q2"
    /\ top_crimes' = top_crime_types(df_clean, build)
    /\ ChartStep("q3", bar_plot_raises(top_crimes'))
    /\ UNCHANGED <<area_crimes, status_counts, weapon_counts, map_sample, top_5_crimes,
                   top_crimes_by_area, age_data, victim_sex>>

\* lines 162-171
StatusChart ==
    /\ pc = "q3"
    /\ status_counts' = value_counts(df_clean, "status", build)
    /\ ChartStep("q4", bar_plot_raises(status_counts'))
    /\ UNCHANGED <<area_crimes, top_crimes, weapon_counts, map_sample, top_5_crimes,
                   top_crimes_by_area, age_data, victim_sex>>

\* lines 176-183
WeaponChart ==
    /\ pc = "q4"
    /\ weapon_counts' = top_weapons(df_clean, build)
    /\ ChartStep("q5", bar_plot_raises(weapon_counts'))
    /\ UNCHANGED <<area_crimes, top_crimes, status_counts, map_sample, top_5_crimes,
                   top_crimes_by_area, age_data, victim_sex>>

\* lines 187-212
HeatMap ==
    /\ pc = "q5"
    /\ map_sample' \in Samples(df_clean, Min(MAP_SAMPLE_N, Len(df_clean)))
    /\ ChartStep("q6", FALSE)
    /\ UNCHANGED <<area_crimes, top_crimes, status_counts, weapon_counts, top_5_crimes,
                   top_crimes_by_area, age_data, victim_sex>>

\* lines 219-234
CrossTabChart ==
    /\ pc = "q6"
    /\ top_5_crimes' = top_cross_labels(df_clean, build)
    /\ top_crimes_by_area' = select_columns(crosstab(df_clean), top_5_crimes')
    /\ ChartStep("q7", frame_plot_raises(top_crimes_by_area'))
    /\ UNCHANGED <<area_crimes, top_crimes, status_counts, weapon_counts, map_sample,
                   age_data, victim_sex>>

\* lines 245-253
AgeHistogram ==
    /\ pc = "q7"
    /\ age_data' = age_filter(df_clean)
    /\ ChartStep("q8", FALSE)
    /\ UNCHANGED <<area_crimes, top_crimes, status_counts, weapon_counts, map_sample,
                   top_5_crimes, top_crimes_by_area, victim_sex>>

\* lines 258-265
SexChart ==
    /\ pc = "q8"
    /\ victim_sex' = value_counts(df_clean, "sex", build)
    /\ ChartStep("done", bar_plot_raises(victim_sex'))
    /\ UNCHANGED <<area_crimes, top_crimes, status_counts, weapon_counts, map_sample,
                   top_5_crimes, top_crimes_by_area, age_data>>

\* one run of the script, top to bottom
Run ==
    \/ LoadData
    \/ ParseDates
    \/ TemporalFeatures
    \/ HandleTime
    \/ DropGeoMissing
    \/ DropGeoZero
    \/ BoundingBox
    \/ RemoveDuplicates
    \/ DropCriticalMissing
    \/ AreaChart
    \/ CrimeChart
    \/ StatusChart
    \/ WeaponChart
    \/ HeatMap
    \/ CrossTabChart
    \/ AgeHistogram
    \/ SexChart

Next == Run

Spec == Init /\ [][Next]_vars

SpecLabels == InitLabels /\ [][Next]_vars

----------------------------------------------------------------------------
(* A session: the script runs again on every interaction, the clock advances *)
(* and the file may be replaced between two runs; only the cache outlives a  *)
(* run.  The script reads the clock and the file in load_data alone, so both *)
(* change while the next run is about to start.                              *)

Rerun ==
    /\ pc \in {"done", "error"}
    /\ runs < MaxRuns
    /\ runs' = runs + 1
    /\ pc' = "load"
    /\ df' = <<>>
    /\ df_clean' = <<>>
    /\ initial_count' = 0
    /\ duplicates_removed' = 0
    /\ initial_count_2' = 0
    /\ missing_removed' = 0
    /\ sizes' = <<>>
    /\ area_crimes' = <<>>
    /\ top_crimes' = <<>>
    /\ status_counts' = <<>>
    /\ weapon_counts' = <<>>
    /\ map_sample' = {}
    /\ top_5_crimes' = <<>>
    /\ top_crimes_by_area' = NoFrame
    /\ age_data' = <<>>
    /\ victim_sex' = <<>>
    /\ UNCHANGED <<file, now, cache, reads, ticks, build>>

Tick ==
    /\ pc = "load"
    /\ ticks < MaxTicks
    /\ \E d \in {1, TTL - 1, TTL} : now' = now + d
    /\ ticks' = ticks + 1
    /\ UNCHANGED <<file, cache, reads, runs, build, pc, df, cleaning, charts>>

WriteFile ==
    /\ pc = "load"
    /\ file' \in SessionFiles \ {file}
    /\ UNCHANGED <<now, cache, reads, runs, ticks, build, pc, df, cleaning, charts>>

NextSession == Run \/ Rerun \/ Tick \/ WriteFile

SpecSession == InitSession /\ [][NextSession]_vars

----------------------------------------------------------------------------
(* Properties *)

Cleaning == {"load", "dates", "temporal", "time", "geo_na", "geo_zero", "geo_box",
             "dedup", "critical"}
AfterClean == pc \notin Cleaning

RECURSIVE SumCounts(_)
SumCounts(s) == IF s = <<>> THEN 0 ELSE s[1].count + SumCounts(Tail(s))

\* the row of the loaded table that carries an index label
RawOf(i) == CHOOSE r \in Range(df) : r.idx = i

\* C1: every record of the cleaned table has a parsed occurrence date, latitude
\* in [33, 35], longitude in [-119, -117], no zero or missing coordinate, and no
\* missing area name, crime description, victim sex or case status.
C1_CleanRecordInvariant ==
    AfterClean =>
        \A r \in Range(df_clean) :
            /\ ~isna(r.date) /\ Val(r.date) \in [y : Int, m : 1..12, d : 1..31]
            /\ ~isna(r.lat) /\ Val(r.lat) # 0 /\ Val(r.lat) >= 33 /\ Val(r.lat) <= 35
            /\ ~isna(r.lon) /\ Val(r.lon) # 0 /\ Val(r.lon) >= -119 /\ Val(r.lon) <= -117
            /\ ~isna(r.area) /\ ~isna(r.crime) /\ ~isna(r.sex) /\ ~isna(r.status)

\* a run that ends with records on both box edges after rows were filtered out
C1_Witness ==
    /\ pc = "done"
    /\ Len(df_clean) < Len(df)
    /\ \E r \in Range(df_clean) : r.lat = Some(33)

\* C2: no two distinct records of the final cleaned table are identical across
\* all fields.
C2_NoDuplicateRecords ==
    AfterClean =>
        \A i, j \in DOMAIN df_clean : i < j => Cells(df_clean[i]) # Cells(df_clean[j])

\* a run where two rows that differ in the file are equal once converted, and one
\* of them is removed as a duplicate
C2_Witness ==
    /\ pc = "done"
    /\ Len(df) = 2 /\ Cells(df[1]) # Cells(df[2])
    /\ duplicates_removed = 1
    /\ Len(df_clean) = 1

\* the record a loaded row becomes when it passes every filter, <<>> when it does not
CellsOf(t) == [i \in DOMAIN t |-> Cells(t[i])]
Derived(r) == CellsOf(cleaned(<<r>>))
Passes(r) == Derived(r) # <<>>

\* positions of the loaded table that are still present when duplicates are removed
ReachDedup ==
    {i \in DOMAIN df :
        /\ ~isna(to_datetime(df[i].date))
        /\ ~isna(df[i].lat) /\ ~isna(df[i].lon)
        /\ Val(df[i].lat) # 0 /\ Val(df[i].lon) # 0
        /\ in_box(df[i])}

\* what the row at a position looks like when duplicates are removed
AtDedup(i) == CellsOf(handle_time(temporal_features(parse_dates(<<df[i]>>))))

EqualAtDedup == {p \in ReachDedup \X ReachDedup : p[1] < p[2] /\ AtDedup(p[1]) = AtDedup(p[2])}

IdenticalRaw == {p \in (DOMAIN df) \X (DOMAIN df) : p[1] < p[2] /\ Cells(df[p[1]]) = Cells(df[p[2]])}

\* C3 as stated: whenever the raw table contains two fully identical rows, the
\* cleaned table retains exactly one of them and duplicates_removed is 1.
C3_AsStated ==
    AfterClean =>
        \A p \in IdenticalRaw :
            /\ Cardinality({df[p[1]].idx, df[p[2]].idx} \cap Index(df_clean)) = 1
            /\ duplicates_removed = 1

\* C3 amended: when the raw table contains two fully identical rows that pass the
\* date, coordinate and critical-column filters, the cleaned table holds exactly
\* one record with their values and duplicates_removed is at least 1; it is
\* exactly 1 when they are the only two rows equal at duplicate removal.
C3_IdenticalRowsKeptOnce ==
    AfterClean =>
        \A p \in IdenticalRaw :
            Passes(df[p[1]]) =>
                /\ Cardinality({k \in DOMAIN df_clean :
                        <<Cells(df_clean[k])>> = Derived(df[p[1]])}) = 1
                /\ duplicates_removed >= 1
                /\ (EqualAtDedup = {p} => duplicates_removed = 1)

C3_Witness ==
    /\ pc = "done"
    /\ \E p \in IdenticalRaw : Passes(df[p[1]])
    /\ duplicates_removed = 1
    /\ Len(df_clean) = 1

Stages == <<"date", "geo_na", "geo_zero", "geo_box", "dedup", "critical">>

\* C9: the filters run in the order date, missing coordinates, zero coordinates,
\* bounding box, duplicates, critical columns; no stage grows the table;
\* duplicates_removed and missing_removed are the non-negative differences of
\* the sizes around their stages, and the final size is the size after the
\* bounding box minus both.
C9_StageSizes ==
    /\ Len(sizes) <= Len(Stages)
    /\ \A k \in DOMAIN sizes :
        /\ sizes[k].stage = Stages[k]
        /\ sizes[k].size <= (IF k = 1 THEN Len(df) ELSE sizes[k - 1].size)
    /\ Len(sizes) >= 5 =>
        /\ duplicates_removed = sizes[4].size - sizes[5].size
        /\ duplicates_removed >= 0
    /\ Len(sizes) = 6 =>
        /\ missing_removed = sizes[5].size - sizes[6].size
        /\ missing_removed >= 0
        /\ Len(df_clean) = sizes[6].size
        /\ sizes[6].size = sizes[4].size - duplicates_removed - missing_removed
    /\ AfterClean => Len(sizes) = 6

\* both counters are positive at the end of the cleaning
C9_Witness ==
    /\ AfterClean
    /\ duplicates_removed >= 1
    /\ missing_removed >= 1

\* the filters other than the time conversion, on the row at a position of df
KeptByOthers(i) ==
    /\ i \in ReachDedup
    /\ \A j \in ReachDedup : j < i => AtDedup(j) # AtDedup(i)
    /\ ~isna(df[i].area) /\ ~isna(df[i].crime) /\ ~isna(df[i].sex) /\ ~isna(df[i].status)

HasHour == pc \notin {"load", "dates", "temporal", "time"}

\* C10: hour is the floor of the numeric time code divided by 100, and missing
\* when the time code is not numeric; the time conversion drops no row, and a
\* row with a non-numeric time code or an hour outside 0..23 stays in the
\* cleaned table when it passes the other filters.
C10_HourDerivation ==
    /\ HasHour =>
        \A r \in Range(df_clean) :
            LET n == to_numeric(RawOf(r.idx).time) IN
            IF isna(n) THEN isna(r.hour) /\ isna(r.time)
            ELSE /\ ~isna(r.hour)
                 /\ 100 * Val(r.hour) <= Val(n)
                 /\ Val(n) < 100 * Val(r.hour) + 100
    /\ pc = "geo_na" => Len(df_clean) = sizes[1].size
    /\ AfterClean => \A i \in DOMAIN df : KeptByOthers(i) => df[i].idx \in Index(df_clean)

\* a cleaned table that holds a row of hour 25 and a row without hour
C10_Witness ==
    /\ pc = "done"
    /\ \E r \in Range(df_clean) : r.hour = Some(25)
    /\ \E r \in Range(df_clean) : isna(r.hour)

\* C7: the age sample holds exactly the ages of cleaned records that are present,
\* above 0 and below 100; building it leaves the cleaned table as the cleaning
\* left it, and the victim sex table that follows counts every cleaned record.
C7_AgeSampleLocal ==
    /\ pc \in {"q8", "done"} =>
        /\ Range(age_data) =
              {[idx |-> r.idx, age |-> Val(r.age)] :
                  r \in {x \in Range(df_clean) :
                            ~isna(x.age) /\ 0 < Val(x.age) /\ Val(x.age) < 100}}
        /\ Len(age_data) = Cardinality(Range(age_data))
        /\ df_clean = cleaned(df)
        /\ Len(df_clean) = sizes[6].size
    /\ pc = "done" =>
        /\ SumCounts(victim_sex) = Len(df_clean)
        /\ SumCounts(status_counts) = Len(df_clean)

\* a finished run whose cleaned table holds a victim of 150 that the sample leaves out
C7_Witness ==
    /\ pc = "done"
    /\ \E r \in Range(df_clean) :
          r.age = Some(150) /\ r.idx \notin {a.idx : a \in Range(age_data)}
    /\ Len(age_data) = 1

\* C5 as stated: when the cleaned table is empty every aggregate is empty and the
\* run completes without an error.
C5_EmptyTableRenders ==
    (AfterClean /\ df_clean = <<>>) =>
        /\ pc # "error"
        /\ pc = "done" =>
            /\ area_crimes = <<>> /\ top_crimes = <<>> /\ status_counts = <<>>
            /\ weapon_counts = <<>> /\ map_sample = {}
            /\ top_crimes_by_area = NoFrame
            /\ age_data = <<>> /\ victim_sex = <<>>

\* the labels of a column of the cleaned table, and where each is first met
LabelsOf(col) == {df_clean[i][col] : i \in DOMAIN df_clean} \ {NA}
FirstPos(col, c) == CHOOSE i \in FirstSeen(df_clean, col) : df_clean[i][col] = c

\* a top-n table of a column: at most n entries, none for a missing label, each
\* with the number of cleaned records of its label, counts never increasing, and
\* no label left out unless the table is full of labels that count as much
TopTable(T, col, n) ==
    /\ Len(T) <= n
    /\ \A k \in DOMAIN T :
        /\ ~isna(T[k].label)
        /\ T[k].count = Cardinality({i \in DOMAIN df_clean : df_clean[i][col] = T[k].label})
        /\ T[k].count >= 1
        /\ k > 1 => T[k - 1].count >= T[k].count
        /\ \A j \in DOMAIN T : j # k => T[j].label # T[k].label
    /\ \A c \in LabelsOf(col) \ Range(Labels(T)) :
        /\ Len(T) = n
        /\ \A k \in DOMAIN T :
            T[k].count >= Cardinality({i \in DOMAIN df_clean : df_clean[i][col] = c})

\* labels of equal count in the order in which the cleaned table first holds them
FirstEncountered(T, col) ==
    /\ \A j, k \in DOMAIN T :
        (j < k /\ T[j].count = T[k].count) =>
            FirstPos(col, T[j].label) < FirstPos(col, T[k].label)
    /\ \A c \in LabelsOf(col) \ Range(Labels(T)) :
        \A k \in DOMAIN T :
            T[k].count = CountOf(df_clean, col, c) =>
                FirstPos(col, T[k].label) < FirstPos(col, c)

AreasDone == pc \notin Cleaning \cup {"q1"}
CrimesDone == pc \notin Cleaning \cup {"q1", "q2"}
WeaponsDone == pc \notin Cleaning \cup {"q1", "q2", "q3", "q4"}

\* C4 amended: each top-10 table holds at most 10 (label, count) entries in
\* non-increasing count order, each count is the number of cleaned records of
\* the label, no label left out counts more than one kept, and the weapons
\* table has no entry for a missing weapon; the order of labels of equal count
\* is not fixed.
C4_TopTen ==
    /\ AreasDone => TopTable(area_crimes, "area", 10)
    /\ CrimesDone => TopTable(top_crimes, "crime", 10)
    /\ WeaponsDone => TopTable(weapon_counts, "weapon", 10)

\* C4 as stated: the same, and labels of equal count appear in first-encountered
\* order.
C4_AsStated ==
    /\ C4_TopTen
    /\ AreasDone => FirstEncountered(area_crimes, "area")
    /\ CrimesDone => FirstEncountered(top_crimes, "crime")
    /\ WeaponsDone => FirstEncountered(weapon_counts, "weapon")

\* more than 10 areas and weapons, counts that differ, a record without weapon
C4_Witness ==
    /\ pc = "done"
    /\ Cardinality(LabelsOf("area")) > 10 /\ Len(area_crimes) = 10
    /\ Cardinality(LabelsOf("weapon")) > 10 /\ Len(weapon_counts) = 10
    /\ area_crimes[1].count > area_crimes[10].count
    /\ area_crimes[9].count = area_crimes[10].count
    /\ \E r \in Range(df_clean) : isna(r.weapon)

\* C8: the cross-tab has one row for every area of the cleaned table, its columns
\* are the 5 most frequent crime types (all of them when fewer than 5 exist) as
\* the top crime table orders them, and each cell counts the cleaned records of
\* its area and crime type.
C8_CrossTab ==
    pc \in {"q7", "q8", "done"} =>
        LET f == top_crimes_by_area IN
        /\ {r.area : r \in f.rows} = LabelsOf("area")
        /\ Cardinality(f.rows) = Cardinality(LabelsOf("area"))
        /\ Len(f.cols) = Min(5, Cardinality(LabelsOf("crime")))
        /\ f.cols = [k \in 1..Min(5, Len(top_crimes)) |-> top_crimes[k].label]
        /\ \A j, k \in DOMAIN f.cols : j # k => f.cols[j] # f.cols[k]
        /\ \A c \in LabelsOf("crime") \ Range(f.cols) :
            \A k \in DOMAIN f.cols :
                CountOf(df_clean, "crime", f.cols[k]) >= CountOf(df_clean, "crime", c)
        /\ \A r \in f.rows :
            /\ DOMAIN r.cells = DOMAIN f.cols
            /\ \A k \in DOMAIN f.cols :
                r.cells[k] = Cardinality({i \in DOMAIN df_clean :
                    df_clean[i].area = r.area /\ df_clean[i].crime = f.cols[k]})

\* more than 5 crime types, with an empty cell and a cell of at least 2
C8_Witness ==
    /\ pc = "done"
    /\ Cardinality(LabelsOf("crime")) > 5
    /\ \E r \in top_crimes_by_area.rows : \E k \in DOMAIN r.cells : r.cells[k] = 0
    /\ \E r \in top_crimes_by_area.rows : \E k \in DOMAIN r.cells : r.cells[k] >= 2

\* C6: a call of load_data less than one hour after the call that filled the
\* cache returns the cached table and does not read the file; a call after the
\* hour has passed reads the file again.
C6_CacheWindow ==
    [][(pc = "load" /\ pc' = "dates" /\ ~isna(cache)) =>
          IF now - Val(cache).stored < 3600
          THEN df' = Val(cache).value /\ reads' = reads /\ cache' = cache
          ELSE /\ reads' = reads + 1
               /\ df' = read_csv(file)
               /\ cache' = Some([value |-> df', stored |-> now])]_vars

\* the third run of a session is served from the cache although the file has
\* changed, after one of the runs before it found the entry expired
C6_Witness ==
    /\ pc = "dates"
    /\ runs = 2
    /\ reads = 2
    /\ df # read_csv(file)

====
